---------------------------- MODULE Spec2Model ----------------------------
(***************************************************************************)
(* Font resolution of maptoposter (src/font_management.py):                *)
(* download_google_font, load_fonts_from_path and load_fonts, with the     *)
(* on-disk font cache as the only state that survives a call.              *)
(*                                                                         *)
(* Text the code processes (family names, file stems, suffixes) is a       *)
(* sequence of one-character strings, so that lower(), replace() and the   *)
(* regular-expression searches are computed and not assumed.               *)
(***************************************************************************)
EXTENDS Integers, Sequences, FiniteSets, TLC

VARIABLES
    cache,           \* files under fonts/cache: cache path -> URL its bytes came from
    cacheDir,        \* whether the directory fonts/cache exists
    call,            \* the arguments and environment of the last call
    ret,             \* what the last call gave its caller
    log,             \* per requested weight, what download_google_font did
    weight_url_map,  \* the weight -> URL mapping the last fetch parsed
    stages,          \* the stages the last load_fonts ran, in order
    matched,         \* font_files after the pattern matching of the last directory scan
    pc               \* number of calls made (used by the repeated-call specification)

vars == <<cache, cacheDir, call, ret, log, weight_url_map, stages, matched, pc>>

-----------------------------------------------------------------------------
(* Bounds of the model *)

MaxBlocks == 2        \* @font-face blocks of a style sheet (fetch specifications)
MaxRemoteBlocks == 1  \* @font-face blocks of a style sheet (load_fonts specification)
MaxDecls == 3         \* declarations in one parsed @font-face block
MaxFiles == 2         \* entries of a scanned directory
MaxLocalFiles == 1    \* entries of a directory given to load_fonts

-----------------------------------------------------------------------------
(* Text *)

UpperCase == <<"A","B","C","D","E","F","G","H","I","J","K","L","M",
               "N","O","P","Q","R","S","T","U","V","W","X","Y","Z">>
LowerCase == <<"a","b","c","d","e","f","g","h","i","j","k","l","m",
               "n","o","p","q","r","s","t","u","v","w","x","y","z">>

\* str.lower() on one character
LowerChar(c) ==
    IF \E i \in DOMAIN UpperCase : UpperCase[i] = c
    THEN LowerCase[CHOOSE i \in DOMAIN UpperCase : UpperCase[i] = c]
    ELSE c

\* str.lower()
Lower(s) == [i \in DOMAIN s |-> LowerChar(s[i])]

\* font_family.replace(" ", "_").lower()
font_name_safe(font_family) ==
    Lower([i \in DOMAIN font_family |->
              IF font_family[i] = " " THEN "_" ELSE font_family[i]])

\* re.search(p, s) for a literal pattern p: p occurs somewhere in s
Contains(s, p) ==
    \E i \in 1..(Len(s) - Len(p) + 1) : SubSeq(s, i, i + Len(p) - 1) = p

\* re.search("^" + p, s) for a literal p: s starts with p
StartsWith(s, p) == Len(s) >= Len(p) /\ SubSeq(s, 1, Len(p)) = p

-----------------------------------------------------------------------------
(* Ordered mappings (Python dict keeps insertion order): a sequence of     *)
(* [k, v] entries with distinct keys.                                      *)

Keys(d) == {d[i].k : i \in DOMAIN d}
Has(d, key) == key \in Keys(d)
Get(d, key) == d[CHOOSE i \in DOMAIN d : d[i].k = key].v
Put(d, key, val) ==
    IF Has(d, key)
    THEN [i \in DOMAIN d |-> IF d[i].k = key THEN [k |-> key, v |-> val] ELSE d[i]]
    ELSE Append(d, [k |-> key, v |-> val])

-----------------------------------------------------------------------------
(* Values *)

Roles == {"light", "regular", "bold"}

Woff2 == <<"w","o","f","f","2">>
Woff == <<"w","o","f","f">>
Ttf == <<"t","t","f">>
Otf == <<"o","t","f">>

FONTS_DIR == "fonts"
FONTS_CACHE_DIR == "fonts/cache"

\* what a call gives its caller: None, a dict, or an exception that escaped
None == [kind |-> "none", fonts |-> <<>>]
Raised == [kind |-> "raised", fonts |-> <<>>]
Dict(d) == [kind |-> "dict", fonts |-> d]

\* `x if x else None` / `if fonts:` : an empty dict is falsy
Truthy(r) == r.kind = "dict" /\ r.fonts # <<>>

NoUrl == [name |-> "", ext |-> <<>>]
NoPath == [root |-> "", stem |-> <<>>, role |-> "", ext |-> <<>>]

-----------------------------------------------------------------------------
(* download_google_font: the style sheet *)

\* A style sheet is a sequence of @font-face blocks; a block is a sequence of
\* declarations: font-weight: <val>, url(https://<name>.<ext>), or anything else.
WeightDecl(n) == [kind |-> "weight", val |-> n, name |-> "", ext |-> <<>>]
UrlDecl(n, e) == [kind |-> "url", val |-> 0, name |-> n, ext |-> e]
OtherDecl == [kind |-> "other", val |-> 0, name |-> "", ext |-> <<>>]

\* re.search(r"font-weight:\s*(\d+)", block): the leftmost font-weight
HasWeight(block) == \E i \in DOMAIN block : block[i].kind = "weight"
BlockWeight(block) ==
    block[CHOOSE i \in DOMAIN block :
            /\ block[i].kind = "weight"
            /\ \A j \in 1..(i - 1) : block[j].kind # "weight"].val

\* what r"url\((https://[^)]+\.(woff2|ttf))\)" matches
UrlMatches(decl) == decl.kind = "url" /\ decl.ext \in {Woff2, Ttf}

\* re.search of that pattern on the block: the leftmost match
HasUrl(block) == \E i \in DOMAIN block : UrlMatches(block[i])
BlockUrl(block) ==
    LET i == CHOOSE i \in DOMAIN block :
                 /\ UrlMatches(block[i])
                 /\ \A j \in 1..(i - 1) : ~UrlMatches(block[j])
    IN [name |-> block[i].name, ext |-> block[i].ext]

\* the loop over font_face_blocks[1:], from block i on, m the mapping so far
RECURSIVE ParseBlocks(_, _, _)
ParseBlocks(blocks, i, m) ==
    IF i > Len(blocks) THEN m
    ELSE IF ~HasWeight(blocks[i]) THEN ParseBlocks(blocks, i + 1, m)
    ELSE IF HasUrl(blocks[i])
         THEN ParseBlocks(blocks, i + 1,
                          Put(m, BlockWeight(blocks[i]), BlockUrl(blocks[i])))
         ELSE ParseBlocks(blocks, i + 1, m)

ParseCss(blocks) == ParseBlocks(blocks, 1, <<>>)

-----------------------------------------------------------------------------
(* download_google_font: one weight *)

\* weight_map.get(weight, "regular")
weight_key(weight) ==
    CASE weight = 300 -> "light"
      [] weight = 400 -> "regular"
      [] weight = 700 -> "bold"
      [] OTHER -> "regular"

Abs(x) == IF x < 0 THEN -x ELSE x

\* faulty variant: the first key of the mapping, whatever its distance
closest_weight_First(m, weight) == m[1].k

\* min(weight_url_map.keys(), key=lambda x: abs(x - weight)): the first key, in
\* the mapping's order, at the least distance
closest_weight(m, weight) ==
    m[CHOOSE i \in DOMAIN m :
        /\ \A j \in DOMAIN m : Abs(m[i].k - weight) <= Abs(m[j].k - weight)
        /\ \A j \in 1..(i - 1) : Abs(m[j].k - weight) > Abs(m[i].k - weight)].k

\* weight_url: the exact weight's URL, else the closest weight's, else none
HasWeightUrl(m, weight) == m # <<>>
WeightUrl(m, weight) ==
    IF Has(m, weight) THEN Get(m, weight) ELSE Get(m, closest_weight(m, weight))

\* "woff2" if weight_url.endswith(".woff2") else "ttf"
file_ext(url) == IF url.ext = Woff2 THEN Woff2 ELSE Ttf

\* FONTS_CACHE_DIR / f"{font_name_safe}_{weight_key}.{file_ext}"
CachePath(safe, role, ext) ==
    [root |-> FONTS_CACHE_DIR, stem |-> safe, role |-> role, ext |-> ext]

\* font_path.exists()
Exists(files, path) == path \in DOMAIN files

\* faulty variant: the downloaded bytes never reach the cache
WriteBytes_Lost(files, path, url) == files

\* font_path.write_bytes(font_response.content)
WriteBytes(files, path, url) ==
    [p \in DOMAIN files \cup {path} |-> IF p = path THEN url ELSE files[p]]

\* faulty variant: the asset is requested although the file is there
NeedsDownload_Always(files, path) == TRUE

\* whether this weight's asset is requested from the network
NeedsDownload(files, path) == ~Exists(files, path)

LogEntry(weight, role, url, path, what) ==
    [weight |-> weight, role |-> role, url |-> url, path |-> path, what |-> what]

\* One iteration of `for weight in weights`. st = [fonts, files, log];
\* ok says whether this weight's asset request would succeed.
StepWeight(weight, m, safe, ok, st) ==
    LET role == weight_key(weight)
    IN IF ~HasWeightUrl(m, weight)
       THEN [st EXCEPT !.log = Append(@, LogEntry(weight, role, NoUrl, NoPath, "nourl"))]
       ELSE LET url == WeightUrl(m, weight)
                path == CachePath(safe, role, file_ext(url))
            IN IF NeedsDownload(st.files, path)
               THEN IF ok
                    THEN [fonts |-> Put(st.fonts, role, path),
                          files |-> WriteBytes(st.files, path, url),
                          log |-> Append(st.log, LogEntry(weight, role, url, path, "downloaded"))]
                    ELSE [st EXCEPT !.log =
                             Append(@, LogEntry(weight, role, url, path, "failed"))]
               ELSE [fonts |-> Put(st.fonts, role, path),
                     files |-> st.files,
                     log |-> Append(st.log, LogEntry(weight, role, url, path, "cached"))]

RECURSIVE DownloadWeights(_, _, _, _, _, _)
DownloadWeights(weights, i, m, safe, dl, st) ==
    IF i > Len(weights) THEN st
    ELSE DownloadWeights(weights, i + 1, m, safe, dl,
                         StepWeight(weights[i], m, safe, dl[i], st))

\* lines 116-128: promote the first value to regular, copy regular to bold and light
FillRegular(fonts) ==
    IF ~Has(fonts, "regular") /\ fonts # <<>>
    THEN Put(fonts, "regular", fonts[1].v) ELSE fonts
\* faulty variant: regular is not copied to a missing bold
FillBold_Skipped(fonts) == fonts

FillBold(fonts) ==
    IF ~Has(fonts, "bold") /\ Has(fonts, "regular")
    THEN Put(fonts, "bold", Get(fonts, "regular")) ELSE fonts
FillLight(fonts) ==
    IF ~Has(fonts, "light") /\ Has(fonts, "regular")
    THEN Put(fonts, "light", Get(fonts, "regular")) ELSE fonts
EnsureWeights(fonts) == FillLight(FillBold(FillRegular(fonts)))

\* `return font_files if font_files else None`
FetchResult(fonts) == IF fonts # <<>> THEN Dict(fonts) ELSE None

-----------------------------------------------------------------------------
(* download_google_font: the whole call *)

\* FONTS_CACHE_DIR.mkdir(parents=True, exist_ok=True) succeeds when the directory
\* is there; otherwise mk says whether the file system lets it be created.
MkdirSucceeds(dirExists, mk) == dirExists \/ mk

\* The outcome of download_google_font(font_family, weights) in the current
\* cache. resp = [ok, blocks] is the style-sheet response (ok = FALSE: the
\* request timed out, failed or was not 2xx), mk the mkdir outcome, dl the
\* outcome of each weight's asset request.
\* Gives [ret, files, dir, log, map].
GoogleFont(font_family, weights, resp, mk, dl, files, dirExists) ==
    IF ~MkdirSucceeds(dirExists, mk)
    THEN \* line 30 is outside the try block: the OSError leaves the function
         [ret |-> Raised, files |-> files, dir |-> dirExists, log |-> <<>>, map |-> <<>>]
    ELSE IF ~resp.ok
    THEN \* lines 49-50 raise inside the try block: line 132 returns None
         [ret |-> None, files |-> files, dir |-> TRUE, log |-> <<>>, map |-> <<>>]
    ELSE LET m == ParseCss(resp.blocks)
             st == DownloadWeights(weights, 1, m, font_name_safe(font_family), dl,
                                   [fonts |-> <<>>, files |-> files, log |-> <<>>])
         IN [ret |-> FetchResult(EnsureWeights(st.fonts)),
             files |-> st.files, dir |-> TRUE, log |-> st.log, map |-> m]

-----------------------------------------------------------------------------
(* load_fonts_from_path *)

\* What the resolved path names on disk:
\*   kind "missing", "special" (neither file nor directory),
\*   "file" with its stem and suffix,
\*   "dir" with its entries in iterdir() order; listable = FALSE: iterdir() raises.
\* An entry of a directory is [stem, ext, isfile].
FsObject(kind, stem, ext, entries, listable) ==
    [kind |-> kind, stem |-> stem, ext |-> ext, entries |-> entries, listable |-> listable]
Missing == FsObject("missing", <<>>, <<>>, <<>>, TRUE)
Special == FsObject("special", <<>>, <<>>, <<>>, TRUE)
FileAt(stem, ext) == FsObject("file", stem, ext, <<>>, TRUE)
DirOf(entries) == FsObject("dir", <<>>, <<>>, entries, TRUE)
Unlistable == FsObject("dir", <<>>, <<>>, <<>>, FALSE)
Entry(stem, ext, isfile) == [stem |-> stem, ext |-> ext, isfile |-> isfile]

SUPPORTED_EXTS == {Ttf, Otf, Woff, Woff2}

\* str(font_path) / str(candidate)
LocalPath(stem, ext) == [root |-> "path", stem |-> stem, role |-> "", ext |-> ext]

\* the list comprehension of lines 194-197, from entry i on
RECURSIVE Candidates(_, _)
Candidates(entries, i) ==
    IF i > Len(entries) THEN <<>>
    ELSE IF entries[i].isfile /\ Lower(entries[i].ext) \in SUPPORTED_EXTS
         THEN <<entries[i]>> \o Candidates(entries, i + 1)
         ELSE Candidates(entries, i + 1)

\* weight_patterns, lines 204-222
BoldPattern(name) ==
    \/ Contains(name, <<"b","o","l","d">>)
    \/ Contains(name, <<"7","0","0">>)
    \/ StartsWith(name, <<"b","_">>)
RegularPattern(name) ==
    \/ Contains(name, <<"r","e","g","u","l","a","r">>)
    \/ Contains(name, <<"4","0","0">>)
    \/ Contains(name, <<"n","o","r","m","a","l">>)
    \/ StartsWith(name, <<"r","_">>)
LightPattern(name) ==
    \/ Contains(name, <<"l","i","g","h","t">>)
    \/ Contains(name, <<"3","0","0">>)
    \/ Contains(name, <<"t","h","i","n">>)
    \/ StartsWith(name, <<"l","_">>)

\* any(re.search(pattern, candidate_name) for pattern in patterns)
Matches(weight_name, candidate) ==
    LET candidate_name == Lower(candidate.stem)
    IN CASE weight_name = "bold" -> BoldPattern(candidate_name)
         [] weight_name = "regular" -> RegularPattern(candidate_name)
         [] weight_name = "light" -> LightPattern(candidate_name)

\* faulty variant: a candidate an earlier role took is not tried again
Pool_Unclaimed(weight_name, font_candidates, fonts) ==
    SelectSeq(font_candidates,
              LAMBDA c : \A i \in DOMAIN fonts : fonts[i].v # LocalPath(c.stem, c.ext))

\* the candidates the inner loop of lines 226-230 tries for one role
Pool(weight_name, font_candidates, fonts) == font_candidates

\* faulty variant: the loop does not break, so the last matching candidate stays
MatchRole_Last(weight_name, font_candidates, fonts) ==
    LET pool == font_candidates
    IN IF \E i \in DOMAIN pool : Matches(weight_name, pool[i])
       THEN LET i == CHOOSE i \in DOMAIN pool :
                        /\ Matches(weight_name, pool[i])
                        /\ \A j \in (i + 1)..Len(pool) : ~Matches(weight_name, pool[j])
            IN Put(fonts, weight_name, LocalPath(pool[i].stem, pool[i].ext))
       ELSE fonts

\* the inner loop for one role: the first matching candidate, then break
MatchRole(weight_name, font_candidates, fonts) ==
    LET pool == Pool(weight_name, font_candidates, fonts)
    IN IF \E i \in DOMAIN pool : Matches(weight_name, pool[i])
       THEN LET i == CHOOSE i \in DOMAIN pool :
                        /\ Matches(weight_name, pool[i])
                        /\ \A j \in 1..(i - 1) : ~Matches(weight_name, pool[j])
            IN Put(fonts, weight_name, LocalPath(pool[i].stem, pool[i].ext))
       ELSE fonts

\* the outer loop: weight_patterns.items() is bold, regular, light
MatchAll(font_candidates) ==
    MatchRole("light", font_candidates,
        MatchRole("regular", font_candidates,
            MatchRole("bold", font_candidates, <<>>)))

\* lines 232-248
FillMissing(font_candidates, fonts) ==
    LET first_font == LocalPath(font_candidates[1].stem, font_candidates[1].ext)
        r == IF Has(fonts, "regular") THEN fonts ELSE Put(fonts, "regular", first_font)
        b == IF Has(r, "bold") THEN r ELSE Put(r, "bold", first_font)
        l == IF Has(b, "light") THEN b ELSE Put(b, "light", first_font)
    IN IF font_candidates # <<>> /\ fonts # <<>> THEN l
       ELSE IF font_candidates # <<>> /\ fonts = <<>>
            THEN <<[k |-> "bold", v |-> first_font],
                   [k |-> "regular", v |-> first_font],
                   [k |-> "light", v |-> first_font]>>
            ELSE fonts

ScanDirectory(entries) ==
    LET font_candidates == Candidates(entries, 1)
    IN IF font_candidates = <<>> THEN None
       ELSE LET fonts == FillMissing(font_candidates, MatchAll(font_candidates))
            IN IF fonts # <<>> THEN Dict(fonts) ELSE None

\* the single-file case, lines 172-187
SingleFile(obj) ==
    IF Lower(obj.ext) \notin SUPPORTED_EXTS THEN None
    ELSE LET p == LocalPath(obj.stem, obj.ext)
         IN Dict(<<[k |-> "bold", v |-> p], [k |-> "regular", v |-> p],
                   [k |-> "light", v |-> p]>>)

\* font_files as lines 224-230 leave it (empty when the scan is not reached)
Matched(obj) ==
    IF obj.kind = "dir" /\ obj.listable
    THEN MatchAll(Candidates(obj.entries, 1))
    ELSE <<>>

\* load_fonts_from_path(font_path), obj being what font_path resolves to
FontsFromPath(obj) ==
    CASE obj.kind = "missing" -> None
      [] obj.kind = "file" -> SingleFile(obj)
      [] obj.kind = "dir" ->
           IF ~obj.listable
           THEN Raised      \* iterdir() raises OSError; nothing here catches it
           ELSE ScanDirectory(obj.entries)
      [] OTHER -> None

-----------------------------------------------------------------------------
(* load_fonts *)

Roboto == <<"R","o","b","o","t","o">>
Stem(role) ==
    CASE role = "bold" -> Roboto \o <<"-","B","o","l","d">>
      [] role = "regular" -> Roboto \o <<"-","R","e","g","u","l","a","r">>
      [] role = "light" -> Roboto \o <<"-","L","i","g","h","t">>

\* os.path.join(FONTS_DIR, "Roboto-<Weight>.ttf")
DefaultPath(role) == [root |-> FONTS_DIR, stem |-> Stem(role), role |-> "", ext |-> Ttf]

\* `if font_family and font_family.lower() != "roboto"`
WantsRemote(font_family) == font_family # <<>> /\ Lower(font_family) # Lower(Roboto)

\* `if font_path`: NoFontPath stands for None (and the empty string)
NoFontPath == FsObject("none", <<>>, <<>>, <<>>, TRUE)
WantsLocal(obj) == obj.kind # "none"

\* lines 299-312: defaults is the set of roles whose default file exists
DefaultFonts(defaults) ==
    IF \E r \in Roles : r \notin defaults THEN None
    ELSE Dict(<<[k |-> "bold", v |-> DefaultPath("bold")],
                [k |-> "regular", v |-> DefaultPath("regular")],
                [k |-> "light", v |-> DefaultPath("light")]>>)

DefaultWeights == <<300, 400, 700>>

Stage(name, out) == [stage |-> name, out |-> out]

\* The stages after the remote one, given the stages run so far.
\* Gives [ret, stages].
AfterRemote(obj, defaults, sofar) ==
    LET local == FontsFromPath(obj)
        dflt == DefaultFonts(defaults)
    IN IF WantsLocal(obj)
       THEN IF local = Raised
            THEN [ret |-> Raised, stages |-> Append(sofar, Stage("local", Raised))]
            ELSE IF Truthy(local)
            THEN [ret |-> local, stages |-> Append(sofar, Stage("local", local))]
            ELSE [ret |-> dflt,
                  stages |-> sofar \o <<Stage("local", local), Stage("default", dflt)>>]
       ELSE [ret |-> dflt, stages |-> Append(sofar, Stage("default", dflt))]

\* faulty variant: a local path, when given, is tried even after a successful fetch
AfterFetch_LocalFirst(g, obj, defaults) ==
    IF g.ret = Raised
    THEN [ret |-> Raised, stages |-> <<Stage("remote", Raised)>>]
    ELSE IF Truthy(g.ret) /\ ~WantsLocal(obj)
    THEN [ret |-> g.ret, stages |-> <<Stage("remote", g.ret)>>]
    ELSE AfterRemote(obj, defaults, <<Stage("remote", g.ret)>>)

\* load_fonts once the remote stage gave g (a GoogleFont outcome).
\* Gives [ret, stages].
AfterFetch(g, obj, defaults) ==
    IF g.ret = Raised
    THEN [ret |-> Raised, stages |-> <<Stage("remote", Raised)>>]
    ELSE IF Truthy(g.ret)
    THEN [ret |-> g.ret, stages |-> <<Stage("remote", g.ret)>>]
    ELSE AfterRemote(obj, defaults, <<Stage("remote", g.ret)>>)

-----------------------------------------------------------------------------
(* Inputs *)

\* all sequences over S of length at most n
RECURSIVE SeqsUpTo(_, _)
SeqsUpTo(S, n) ==
    IF n = 0 THEN {<<>>}
    ELSE LET shorter == SeqsUpTo(S, n - 1)
         IN shorter \cup {Append(q, x) : q \in {r \in shorter : Len(r) = n - 1}, x \in S}

\* a @font-face block as the service writes it
FontFace(weight, name, ext) == <<OtherDecl, WeightDecl(weight), UrlDecl(name, ext)>>

Failed == [ok |-> FALSE, blocks |-> <<>>]
Sheet(blocks) == [ok |-> TRUE, blocks |-> blocks]
Responses(faces, n) == {Failed} \cup {Sheet(b) : b \in SeqsUpTo(faces, n)}

\* the names in a directory are distinct
DistinctNames(entries) ==
    \A i, j \in DOMAIN entries :
        (entries[i].stem = entries[j].stem /\ entries[i].ext = entries[j].ext) => i = j

NoResponse == Failed
NoCall == [fn |-> "", family |-> <<>>, weights |-> <<>>, resp |-> NoResponse,
           path |-> NoFontPath, defaults |-> {}]

Empty == <<>>    \* a cache directory without files

-----------------------------------------------------------------------------
(* The calls. A caller makes one call at a time: pc = 0 when no call's     *)
(* result is pending, and Return is the caller taking the result.          *)

\* whether (re)creating the cache directory can fail
MkdirOutcomes(dirExists) == IF dirExists THEN {TRUE} ELSE BOOLEAN

Fetch(font_family, weights, resp, mk, dl) ==
    \E g \in {GoogleFont(font_family, weights, resp, mk, dl, cache, cacheDir)} :
       /\ cache' = g.files
       /\ cacheDir' = g.dir
       /\ ret' = g.ret
       /\ log' = g.log
       /\ weight_url_map' = g.map
       /\ stages' = <<>>
       /\ matched' = <<>>
       /\ call' = [fn |-> "download_google_font", family |-> font_family,
                   weights |-> weights, resp |-> resp, path |-> NoFontPath,
                   defaults |-> {}]

\* download_google_font(font_family, weights)
DownloadGoogleFont(families, weightLists, responses) ==
    /\ pc = 0
    /\ \E font_family \in families, weights \in weightLists, resp \in responses,
          mk \in MkdirOutcomes(cacheDir) :
          \E dl \in [1..Len(weights) -> BOOLEAN] :
              Fetch(font_family, weights, resp, mk, dl)
    /\ pc' = 1

\* load_fonts_from_path(font_path)
LoadFontsFromPath(objects) ==
    /\ pc = 0
    /\ \E obj \in objects :
          /\ ret' = FontsFromPath(obj)
          /\ matched' = Matched(obj)
          /\ call' = [NoCall EXCEPT !.fn = "load_fonts_from_path", !.path = obj]
    /\ log' = <<>>
    /\ weight_url_map' = <<>>
    /\ stages' = <<>>
    /\ pc' = 1
    /\ UNCHANGED <<cache, cacheDir>>

\* load_fonts(font_family, font_path) when the remote stage runs
LoadFontsRemote(font_family, obj, defaults, resp, mk, dl) ==
    \E g \in {GoogleFont(font_family, DefaultWeights, resp, mk, dl, cache, cacheDir)} :
    \E r \in {AfterFetch(g, obj, defaults)} :
       /\ cache' = g.files
       /\ cacheDir' = g.dir
       /\ log' = g.log
       /\ weight_url_map' = g.map
       /\ ret' = r.ret
       /\ stages' = r.stages
       /\ matched' = <<>>

\* load_fonts(font_family, font_path) when the remote stage is skipped
LoadFontsLocal(obj, defaults) ==
    \E r \in {AfterRemote(obj, defaults, <<>>)} :
       /\ ret' = r.ret
       /\ stages' = r.stages
       /\ matched' = <<>>
       /\ log' = <<>>
       /\ weight_url_map' = <<>>
       /\ UNCHANGED <<cache, cacheDir>>

\* load_fonts(font_family, font_path)
LoadFonts(families, objects, responses) ==
    /\ pc = 0
    /\ \E font_family \in families, obj \in objects, defaults \in SUBSET Roles :
          /\ call' = [NoCall EXCEPT !.fn = "load_fonts", !.family = font_family,
                                    !.path = obj, !.defaults = defaults]
          /\ IF WantsRemote(font_family)
             THEN \E resp \in responses, mk \in MkdirOutcomes(cacheDir),
                     dl \in [1..Len(DefaultWeights) -> BOOLEAN] :
                     LoadFontsRemote(font_family, obj, defaults, resp, mk, dl)
             ELSE LoadFontsLocal(obj, defaults)
    /\ pc' = 1

\* the caller takes the result; the cache stays
Return ==
    /\ pc = 1
    /\ pc' = 0
    /\ call' = NoCall
    /\ ret' = None
    /\ log' = <<>>
    /\ weight_url_map' = <<>>
    /\ stages' = <<>>
    /\ matched' = <<>>
    /\ UNCHANGED <<cache, cacheDir>>

Idle ==
    /\ call = NoCall
    /\ ret = None
    /\ log = <<>>
    /\ weight_url_map = <<>>
    /\ stages = <<>>
    /\ matched = <<>>
    /\ pc = 0

-----------------------------------------------------------------------------
(* Spec: the three entry points, called in any order *)

OpenSans == <<"O","p"," ","S">>

Families == {<<>>, Roboto, Lower(Roboto), OpenSans}
RemoteFaces == {FontFace(w, u[1], u[2]) : w \in {400, 700}, u \in {<<"a", Woff2>>, <<"b", Ttf>>}}
RemoteResponses == Responses(RemoteFaces, MaxRemoteBlocks)
LocalEntries == {Entry(<<"T","h","i","n">>, Ttf, TRUE), Entry(<<"x">>, <<"t","x","t">>, TRUE)}
LocalObjects ==
    {NoFontPath, Missing, Special, Unlistable,
     FileAt(<<"x">>, <<"O","T","F">>), FileAt(<<"x">>, <<"t","x","t">>)}
    \cup {DirOf(e) : e \in {d \in SeqsUpTo(LocalEntries, MaxLocalFiles) : DistinctNames(d)}}
WeightLists == {DefaultWeights, <<>>, <<500>>}

Init == cache = Empty /\ cacheDir = FALSE /\ Idle

CallLoadFonts == LoadFonts(Families, LocalObjects, RemoteResponses)
CallDownloadGoogleFont == DownloadGoogleFont({OpenSans}, WeightLists, RemoteResponses)
CallLoadFontsFromPath == LoadFontsFromPath(LocalObjects \ {NoFontPath})

Next ==
    \/ CallLoadFonts
    \/ CallDownloadGoogleFont
    \/ CallLoadFontsFromPath
    \/ Return

Spec == Init /\ [][Next]_vars

-----------------------------------------------------------------------------
(* SpecFetch: download_google_font called any number of times, for two     *)
(* spellings of one family and style sheets whose URLs change              *)

FetchFamilies == {OpenSans, font_name_safe(OpenSans)}
FetchUrls == {<<"a", Woff2>>, <<"b", Woff2>>, <<"a", Ttf>>}
FetchFaces == {FontFace(w, u[1], u[2]) : w \in {300, 400, 700}, u \in FetchUrls}
FetchWeightLists == {DefaultWeights, <<500, 300>>}

CallFetch ==
    DownloadGoogleFont(FetchFamilies, FetchWeightLists,
                       Responses(FetchFaces, MaxRemoteBlocks))

NextFetch ==
    \/ CallFetch
    \/ Return

SpecFetch == Init /\ [][NextFetch]_vars

-----------------------------------------------------------------------------
(* SpecRepeat: download_google_font called twice in succession with the    *)
(* same arguments and the same style-sheet response, from a cache that is  *)
(* absent, empty or already holds a file                                   *)

OldFile == [name |-> "old", ext |-> Woff2]
OldCache ==
    [p \in {CachePath(font_name_safe(OpenSans), "light", Woff2)} |-> OldFile]

RepeatFaces ==
    {FontFace(w, u[1], u[2]) : w \in {300, 400, 700}, u \in {<<"a", Woff2>>, <<"b", Ttf>>}}
RepeatWeightLists == {DefaultWeights, <<500, 300>>, <<400, 500>>}

InitRepeat ==
    /\ Idle
    /\ \/ cache = Empty /\ cacheDir \in BOOLEAN
       \/ cache = OldCache /\ cacheDir = TRUE

FirstCall ==
    DownloadGoogleFont({OpenSans}, RepeatWeightLists, Responses(RepeatFaces, MaxBlocks))

SecondCall ==
    /\ pc = 1
    /\ call.fn = "download_google_font"
    /\ \E mk \in MkdirOutcomes(cacheDir), dl \in [1..Len(call.weights) -> BOOLEAN] :
          Fetch(call.family, call.weights, call.resp, mk, dl)
    /\ pc' = 2

NextRepeat ==
    \/ FirstCall
    \/ SecondCall

SpecRepeat == InitRepeat /\ [][NextRepeat]_vars

-----------------------------------------------------------------------------
(* SpecParse: the style-sheet parser on every small style sheet *)

Decls ==
    {WeightDecl(400), WeightDecl(700),
     UrlDecl("a", Woff2), UrlDecl("b", Ttf), UrlDecl("c", Woff)}
Blocks == SeqsUpTo(Decls, MaxDecls)

InitParse ==
    /\ cache = Empty /\ cacheDir = FALSE
    /\ ret = None /\ log = <<>> /\ weight_url_map = <<>>
    /\ stages = <<>> /\ matched = <<>> /\ pc = 0
    /\ \E blocks \in SeqsUpTo(Blocks, MaxBlocks) :
          call = [NoCall EXCEPT !.fn = "parse", !.resp = Sheet(blocks)]

Parse ==
    /\ pc = 0
    /\ weight_url_map' = ParseCss(call.resp.blocks)
    /\ pc' = 1
    /\ UNCHANGED <<cache, cacheDir, call, ret, log, stages, matched>>

NextParse == Parse

SpecParse == InitParse /\ [][NextParse]_vars

-----------------------------------------------------------------------------
(* SpecLocal: load_fonts_from_path on every small directory *)

ScanStems ==
    {<<"t","h","i","n">>, <<"B","o","l","d">>, <<"b","o","l","d","_","4","0","0">>,
     <<"l","_","7","0","0">>, <<"x">>}
ScanEntries ==
    {Entry(st, e, TRUE) : st \in ScanStems, e \in {Ttf, <<"t","x","t">>}}
    \cup {Entry(<<"r","e","g","u","l","a","r">>, <<"T","T","F">>, f) : f \in BOOLEAN}

ScanObjects ==
    {DirOf(e) : e \in {d \in SeqsUpTo(ScanEntries, MaxFiles) : DistinctNames(d)}}

CallScan == LoadFontsFromPath(ScanObjects)

NextLocal ==
    \/ CallScan
    \/ Return

SpecLocal == Init /\ [][NextLocal]_vars

-----------------------------------------------------------------------------
(* Properties *)

Returned(fn) == pc >= 1 /\ call.fn = fn
Paths(d) == {d[i].v : i \in DOMAIN d}
Entries(l) == {l[i] : i \in DOMAIN l}
Requested(e) == e.what \in {"downloaded", "failed"}
Resolved(e) == e.what \in {"downloaded", "cached"}

\* C1: whatever load_fonts, download_google_font or load_fonts_from_path returns
\* that is not None is a mapping with exactly the keys light, regular and bold,
\* each holding a non-empty path; one or two keys are never returned.
C1_ThreeKeys ==
    ret.kind = "dict" =>
        /\ Len(ret.fonts) = 3
        /\ Keys(ret.fonts) = Roles
        /\ \A p \in Paths(ret.fonts) : p.root # "" /\ Len(p.stem) + Len(p.ext) > 0

\* a fetch in which an asset failed and the roles left were filled from one file
C1_Witness ==
    /\ Returned("download_google_font")
    /\ ret.kind = "dict"
    /\ \E e \in Entries(log) : e.what = "failed"
    /\ Cardinality(Paths(ret.fonts)) = 1

StageNames == <<"remote", "local", "default">>
StageIndex(name) == CHOOSE i \in DOMAIN StageNames : StageNames[i] = name
StageRoot(name) ==
    CASE name = "remote" -> FONTS_CACHE_DIR
      [] name = "local" -> "path"
      [] name = "default" -> FONTS_DIR

C4_NoExceptionEscapes == ret.kind # "raised"

StageOut(name) == {stages[i].out : i \in {j \in DOMAIN stages : stages[j].stage = name}}

\* C5: load_fonts returns None exactly when every stage failed (remote skipped or
\* None, local skipped or None, a default file missing); with all three default
\* files it returns a FontSet for every input, and with one missing the default
\* stage gives None.
C5_NoneIffAllFailed ==
    Returned("load_fonts") =>
        LET remoteSkipped ==
                call.family = <<>> \/ Lower(call.family) = <<"r","o","b","o","t","o">>
            remoteFailed == remoteSkipped \/ StageOut("remote") = {None}
            localFailed == call.path.kind = "none" \/ StageOut("local") = {None}
            defaultMissing == call.defaults # Roles
        IN /\ (ret = None) <=> (remoteFailed /\ localFailed /\ defaultMissing)
           /\ ~defaultMissing => ret.kind = "dict"
           /\ defaultMissing => StageOut("default") \subseteq {None}

\* the same statement for the calls out of which no exception escaped
C5_UnlessRaised == ret.kind = "raised" \/ C5_NoneIffAllFailed


Dist(a, b) == IF a < b THEN b - a ELSE a - b

\* C6: for every requested weight w and non-empty parsed mapping M, the URL used
\* for w's role is M[w] when w is a key of M, else M[c] for a key c at the least
\* distance from w; a role goes without URL only when M is empty. With keys
\* {400, 700} and 300 requested, light is filled from 400.
C6_ClosestWeight ==
    (Returned("download_google_font") /\ ret.kind # "raised" /\ call.resp.ok) =>
        /\ Len(log) = Len(call.weights)
        /\ \A i \in DOMAIN log :
              LET w == call.weights[i]
                  e == log[i]
                  M == weight_url_map
              IN /\ e.weight = w
                 /\ (e.what = "nourl") <=> (M = <<>>)
                 /\ (M # <<>> /\ w \in Keys(M)) => e.url = Get(M, w)
                 /\ (M # <<>> /\ w \notin Keys(M)) =>
                        \E c \in Keys(M) :
                            /\ \A k \in Keys(M) : Dist(c, w) <= Dist(k, w)
                            /\ e.url = Get(M, c)
                 /\ (Keys(M) = {400, 700} /\ w = 300) =>
                        e.role = "light" /\ e.url = Get(M, 400)

\* 300 requested of a sheet that offers 400 and 700 under different URLs
C6_Witness ==
    /\ Returned("download_google_font")
    /\ Keys(weight_url_map) = {400, 700}
    /\ Get(weight_url_map, 400) # Get(weight_url_map, 700)
    /\ \E e \in Entries(log) :
          /\ e.weight = 300 /\ e.role = "light" /\ e.what = "downloaded"
          /\ e.url = Get(weight_url_map, 400)
          /\ Has(ret.fonts, "light") /\ Get(ret.fonts, "light") = e.path

\* how many asset requests of a log went to a path and succeeded
Downloads(l, path) ==
    Cardinality({i \in DOMAIN l : l[i].what = "downloaded" /\ l[i].path = path})
SameResult(a, b) ==
    /\ a.kind = b.kind
    /\ Keys(a.fonts) = Keys(b.fonts)
    /\ \A key \in Keys(a.fonts) : Get(a.fonts, key) = Get(b.fonts, key)

C10_CacheKept ==
    [][/\ \A p \in DOMAIN cache : p \in DOMAIN cache' /\ cache'[p] = cache[p]
       /\ \A i \in DOMAIN log' :
              log'[i].path \in DOMAIN cache =>
                  /\ log'[i].what = "cached"
                  /\ (\A j \in DOMAIN log' :
                         (j > i /\ Resolved(log'[j])) => log'[j].role # log'[i].role)
                     => /\ Has(ret'.fonts, log'[i].role)
                        /\ Get(ret'.fonts, log'[i].role) = log'[i].path
       /\ \A p \in DOMAIN cache' \ DOMAIN cache :
              \E e \in Entries(log') :
                  e.path = p /\ e.what = "downloaded" /\ cache'[p] = e.url]_vars

\* a call whose style sheet names another URL for a file that is cached already
C10_Witness ==
    /\ Returned("download_google_font")
    /\ \E e \in Entries(log) :
          /\ e.what = "cached"
          /\ cache[e.path] # e.url
          /\ Get(ret.fonts, e.role) = e.path
          /\ \A f \in Entries(log) : f.path = e.path => f.what = "cached"


\* the supported font files of a directory, by their place in the enumeration
Fonts(entries) ==
    {i \in DOMAIN entries : entries[i].isfile /\ Lower(entries[i].ext) \in SUPPORTED_EXTS}
PathOf(entries, i) == LocalPath(entries[i].stem, entries[i].ext)
First(S) == CHOOSE i \in S : \A j \in S : i <= j
Scanned ==
    /\ Returned("load_fonts_from_path")
    /\ call.path.kind = "dir" /\ call.path.listable
    /\ Fonts(call.path.entries) # {}
ThinTtf == Entry(<<"t","h","i","n">>, Ttf, TRUE)
BoldTtf == Entry(<<"B","o","l","d">>, Ttf, TRUE)
Bold400Ttf == Entry(<<"b","o","l","d","_","4","0","0">>, Ttf, TRUE)

\* C7: in a directory with a supported font file, each role gets the first
\* candidate in enumeration order whose lowercased stem matches one of the role's
\* patterns, whatever the other roles got; a role without match gets the first
\* candidate, and so do all three when nothing matched. thin.ttf and bold.ttf
\* alone give light = thin.ttf, bold = bold.ttf, regular = the first enumerated.
C7_DirectoryRoles ==
    Scanned =>
        LET entries == call.path.entries
            fonts == Fonts(entries)
            hits(r) == {i \in fonts : Matches(r, entries[i])}
        IN /\ ret.kind = "dict"
           /\ Keys(ret.fonts) = Roles
           /\ \A r \in Roles :
                  Get(ret.fonts, r) =
                      IF hits(r) # {} THEN PathOf(entries, First(hits(r)))
                      ELSE PathOf(entries, First(fonts))
           /\ Entries(entries) = {ThinTtf, BoldTtf} =>
                  /\ Get(ret.fonts, "light") = LocalPath(ThinTtf.stem, Ttf)
                  /\ Get(ret.fonts, "bold") = LocalPath(BoldTtf.stem, Ttf)
                  /\ Get(ret.fonts, "regular") = PathOf(entries, 1)

\* the directory of thin.ttf and Bold.ttf, Bold.ttf enumerated first
C7_Witness ==
    /\ Scanned
    /\ call.path.entries = <<BoldTtf, ThinTtf>>
    /\ Get(ret.fonts, "light") = LocalPath(ThinTtf.stem, Ttf)
    /\ Get(ret.fonts, "regular") = LocalPath(BoldTtf.stem, Ttf)

RoleOrder == <<"bold", "regular", "light">>
RoleIndex(r) == CHOOSE i \in DOMAIN RoleOrder : RoleOrder[i] = r

\* C9 as claimed: a file whose stem matches the patterns of several roles is
\* pattern-matched to one role only, the first of bold, regular, light that it
\* matches, and is not claimed by a later role's pattern match.
C9_FirstRoleWins ==
    Scanned =>
        \A i \in Fonts(call.path.entries), r \in Keys(matched) :
            Get(matched, r) = PathOf(call.path.entries, i) =>
                \A q \in Roles :
                    Matches(q, call.path.entries[i]) => RoleIndex(r) <= RoleIndex(q)

\* C9, amended: a file whose stem matches the patterns of several roles is
\* pattern-matched to every one of those roles for which no earlier candidate in
\* enumeration order matches, so one file can be claimed by several roles: in a
\* directory of bold_400.ttf alone both bold and regular are matched to it.
C9_EveryMatchingRole ==
    Scanned =>
        LET entries == call.path.entries
            hits(r) == {i \in Fonts(entries) : Matches(r, entries[i])}
        IN /\ \A r \in Roles : Has(matched, r) <=> hits(r) # {}
           /\ \A r \in Keys(matched) : Get(matched, r) = PathOf(entries, First(hits(r)))
           /\ entries = <<Bold400Ttf>> =>
                  /\ Keys(matched) = {"bold", "regular"}
                  /\ Get(matched, "bold") = Get(matched, "regular")

\* bold_400.ttf claimed by bold and by regular although regular.TTF is there too
C9_Witness ==
    /\ Scanned
    /\ Len(call.path.entries) = 2
    /\ call.path.entries[1] = Bold400Ttf
    /\ RegularPattern(Lower(call.path.entries[2].stem))
    /\ call.path.entries[2].isfile
    /\ Get(matched, "bold") = LocalPath(Bold400Ttf.stem, Ttf)
    /\ Get(matched, "regular") = LocalPath(Bold400Ttf.stem, Ttf)

\* C8: for every @font-face block that holds both a woff2 URL and a ttf URL, in
\* either order, the URL recorded for the block's weight is the woff2 one.
C8_PrefersWoff2 ==
    (pc = 1 /\ call.fn = "parse") =>
        LET blocks == call.resp.blocks
            urls(b, e) == {[name |-> b[k].name, ext |-> e] :
                              k \in {x \in DOMAIN b : b[x].kind = "url" /\ b[x].ext = e}}
        IN \A i \in DOMAIN blocks :
               (/\ HasWeight(blocks[i])
                /\ urls(blocks[i], Woff2) # {} /\ urls(blocks[i], Ttf) # {}
                /\ \A j \in DOMAIN blocks :
                       (j > i /\ HasWeight(blocks[j])) =>
                           BlockWeight(blocks[j]) # BlockWeight(blocks[i]))
               => /\ Has(weight_url_map, BlockWeight(blocks[i]))
                  /\ Get(weight_url_map, BlockWeight(blocks[i])) \in urls(blocks[i], Woff2)

=============================================================================
